---- MODULE Spec2Model ----
(***************************************************************************)
(* photo_organizer.py: one run of main() as a state machine.               *)
(*                                                                         *)
(*   enumerate_files  (ExifTool.__enter__, one parse_multimedia_file per   *)
(*                     walked file, ExifTool.__exit__)                     *)
(*   unique_files     (one collision decision per enumerated file)         *)
(*   copy loop        (copy_file, or print_copy_file under --dry-run)      *)
(*                                                                         *)
(* The source tree and the answers of the exiftool child are inputs, the   *)
(* destination directory is the state the run changes.                     *)
(***************************************************************************)
EXTENDS Integers, Sequences, FiniteSets, TLC

\* ------------------------------------------------------------------ bounds

\* Number of files under the source root (at most Len(SourcePaths)).
MaxFiles == 2
\* File sizes range over 1..MaxSize.
MaxSize == 3

\* ------------------------------------------------------------ input domains

\* os.walk(path): the files of the source tree, in traversal order.
SourcePaths ==
    << <<"src", "a", "x.jpg">>, <<"src", "b", "x.jpg">>, <<"src", "a", "y.jpg">> >>

\* args.destination
Destination == "dst"

Date(y, m, d) == [y |-> y, m |-> m, d |-> d]
NoDate == Date(0, 0, 0)

\* Creation timestamps the metadata can carry (time of day plays no part).
Dates == {Date(2024, 3, 2), Date(2024, 3, 15), Date(2024, 11, 2)}

ImageTags == <<"EXIF:DateTimeOriginal", "EXIF:CreateDate", "XMP:CreateDate">>
VideoTag == "QuickTime:CreationDate"
Tags == {ImageTags[i] : i \in 1..Len(ImageTags)} \cup {VideoTag}

ImageMimeTypes == {"image/jpeg", "image/png", "image/heic"}
VideoMimeType == "video/quicktime"
NoKey == "absent"

\* A tag value as exiftool prints it: fmt "naive" is YYYY:MM:DD HH:MM:SS,
\* "tz" the same followed by a UTC offset, "bad" any other text.
TagValue(fmt, date) == [fmt |-> fmt, date |-> date]
AbsentTag == TagValue(NoKey, NoDate)
BadTag == TagValue("bad", NoDate)

\* The File:FileSize value: a number, a text that is no number, or no key.
SizeValue(k, v) == [k |-> k, v |-> v]
AbsentSize == SizeValue(NoKey, 0)
BadSize == SizeValue("bad", 0)

\* A response payload of the child: text that is JSON or not, and the
\* records of the JSON array.
Payload(json, records) == [json |-> json, records |-> records]
Garbage == Payload(FALSE, <<>>)
EmptyList == Payload(TRUE, <<>>)

MetadataRecord(mime, size, tags) == [mime |-> mime, size |-> size, tags |-> tags]

OnlyTag(tag, value) == [t \in Tags |-> IF t = tag THEN value ELSE AbsentTag]

Jpeg(date, size) ==
    Payload(TRUE, << MetadataRecord("image/jpeg", SizeValue("int", size),
                                    OnlyTag(ImageTags[1], TagValue("naive", date))) >>)

\* ------------------------------------------------------------------- state

VARIABLES
    src,          \* the source tree: <<[path, payload]>> in walk order
    skip_smaller, \* args.skip_smaller
    dry_run,      \* args.dry_run
    dest,         \* destination files: path of each file -> [size, content]
    dirs,         \* destination directories that exist
    pc,           \* position of main()
    idx,          \* loop index of the stage pc names
    session,      \* the ExifTool child: "none", "failed", "open", "closed"
    stdin,        \* commands written to the child, in order
    exc,          \* an exception is propagating out of enumerate_files
    files,        \* enumerate_files' result
    unique,       \* unique_files' result
    out,          \* "Copy A -> B" lines printed
    decisions,    \* log: one entry per collision decision of this run
    run,          \* 1 for the first run, 2 for a repeated run
    dest0,        \* dest when this run started
    dirs0,        \* dirs when this run started
    copied,       \* log: the files copy_file has copied in this run, in order
    pipe,         \* bytes the child has written to its stdout, not yet read
    output,       \* ExifTool.execute's local: the text accumulated so far
    replies       \* log: what each call of ExifTool.execute returned

\* The state of a call of ExifTool.execute.
execute_vars == <<pipe, output, replies>>

vars == <<src, skip_smaller, dry_run, dest, dirs, pc, idx, session, stdin, exc,
          files, unique, out, decisions, run, dest0, dirs0, copied, pipe,
          output, replies>>

\* -------------------------------------------------------- pure functions

Min(S) == CHOOSE x \in S : \A y \in S : x <= y

\* datetime.strptime(value, pattern): the date, or a ValueError. The image
\* pattern "%Y:%m:%d %H:%M:%S" accepts only naive text, the video pattern
\* "%Y:%m:%d %H:%M:%S%z" only text that ends with an offset.
strptime_ok(value, pattern) == value.fmt = pattern

MultimediaFile(path, size, creation_date) ==
    [path |-> path, size |-> size, creation_date |-> creation_date]
NoFile == MultimediaFile(<<>>, 0, NoDate)

\* What a call of parse_multimedia_file does: raise, return None, or return
\* a MultimediaFile.
Raised == [status |-> "raise", file |-> NoFile]
None == [status |-> "none", file |-> NoFile]
Parsed(file) == [status |-> "file", file |-> file]

\* The tag loop without its break: the last tag present is the one kept.
LastPresent(metadata, tags) ==
    LET present == {i \in 1..Len(tags) : metadata.tags[tags[i]].fmt # NoKey}
    IN  IF present = {} THEN 0 ELSE -Min({-i : i \in present})

\* Index in tags of the first tag the record has, 0 when it has none
\* (for tag in tags: if tag in metadata: ...; break).
FirstPresent(metadata, tags) ==
    LET present == {i \in 1..Len(tags) : metadata.tags[tags[i]].fmt # NoKey}
    IN  IF present = {} THEN 0 ELSE Min(present)

parse_multimedia_file(file_path, payload) ==
    IF ~payload.json
    THEN Raised                                  \* json.loads, outside the try
    ELSE IF Len(payload.records) = 0
    THEN None
    ELSE LET metadata == payload.records[1]
             mime_type == metadata.mime
             file_size == metadata.size
         IN  IF mime_type = NoKey THEN None      \* KeyError, caught
             ELSE IF file_size.k # "int" THEN None   \* KeyError/ValueError, caught
             ELSE IF mime_type \in ImageMimeTypes
             THEN LET i == FirstPresent(metadata, ImageTags)
                  IN  IF i = 0 THEN None
                      ELSE LET value == metadata.tags[ImageTags[i]]
                           IN  IF strptime_ok(value, "naive")
                               THEN Parsed(MultimediaFile(file_path, file_size.v,
                                                          value.date))
                               ELSE None          \* ValueError, caught
             ELSE IF mime_type = VideoMimeType
             THEN LET value == metadata.tags[VideoTag]
                  IN  IF value.fmt = NoKey THEN None
                      ELSE IF strptime_ok(value, "tz")
                      THEN Parsed(MultimediaFile(file_path, file_size.v, value.date))
                      ELSE None                   \* ValueError, caught
             ELSE None

\* os.path.basename
basename(path) == path[Len(path)]

Pad2(n) == IF n < 10 THEN "0" \o ToString(n) ELSE ToString(n)

\* creation_date.strftime("%Y-%m")
strftime_Ym(date) == ToString(date.y) \o "-" \o Pad2(date.m)

\* The same with the day in place of the month ("%Y-%d").
strftime_Yd(date) == ToString(date.y) \o "-" \o Pad2(date.d)

\* A path is the sequence of its components; os.path.join appends them.
construct_target_path_day(file, destination) ==
    <<destination, strftime_Yd(file.creation_date), basename(file.path)>>

construct_target_path(file, destination) ==
    <<destination, strftime_Ym(file.creation_date), basename(file.path)>>

\* Path(target_path).parent
parent(path) == SubSeq(path, 1, Len(path) - 1)

\* The filesystem under the destination: a map from the paths of the files
\* that exist to [size, content]; content is the source path the bytes were
\* copied from, <<"old">> for a file that was there before the first run.
exists(fs, path) == path \in DOMAIN fs
getsize(fs, path) == fs[path].size

\* unique_files, one iteration: is the file kept?
is_unique_ge(file, fs, destination, skip) ==
    LET target_path == construct_target_path(file, destination)
    IN  IF ~exists(fs, target_path) THEN TRUE
        ELSE LET target_file_size == getsize(fs, target_path)
             IN  IF skip /\ file.size >= target_file_size THEN TRUE
                 ELSE IF ~skip /\ file.size # target_file_size THEN TRUE
                 ELSE FALSE

\* unique_files with the comparison of the skip-smaller policy reversed.
is_unique_lt(file, fs, destination, skip) ==
    LET target_path == construct_target_path(file, destination)
    IN  IF ~exists(fs, target_path) THEN TRUE
        ELSE LET target_file_size == getsize(fs, target_path)
             IN  IF skip /\ file.size < target_file_size THEN TRUE
                 ELSE IF ~skip /\ file.size # target_file_size THEN TRUE
                 ELSE FALSE

is_unique(file, fs, destination, skip) ==
    LET target_path == construct_target_path(file, destination)
    IN  IF ~exists(fs, target_path) THEN TRUE
        ELSE LET target_file_size == getsize(fs, target_path)
             IN  IF skip /\ file.size > target_file_size THEN TRUE
                 ELSE IF ~skip /\ file.size # target_file_size THEN TRUE
                 ELSE FALSE

\* shutil.copyfile(file.path, target_path)
\* The bytes are those at file.path when the copy is made: of a source file
\* outside the destination they are the ones the enumeration saw; a source
\* file that lies in the destination may have been written since.
copyfile(fs, file, target_path) ==
    [p \in DOMAIN fs \cup {target_path} |->
        IF p = target_path
        THEN IF file.path \in DOMAIN fs THEN fs[file.path]
             ELSE [size |-> file.size, content |-> file.path]
        ELSE fs[p]]

\* The line print_copy_file prints.
CopyLine(file, destination) ==
    [from |-> file.path, to |-> construct_target_path(file, destination)]

\* ------------------------------------------------------------ initial state

\* Payloads the child answers with in a whole run: text that is no JSON, an
\* empty array, or the record of a JPEG with a creation date and a size.
RunPayloads ==
    {Garbage, EmptyList} \cup {Jpeg(d, s) : d \in Dates, s \in 1..MaxSize}

\* The k-th smallest element of a set of numbers.
Kth(S, k) == CHOOSE i \in S : Cardinality({j \in S : j < i}) = k - 1

\* The source tree holding the files SourcePaths[i], i \in S, with payloads pl.
Tree(S, pl) ==
    [k \in 1..Cardinality(S) |->
        [path |-> SourcePaths[Kth(S, k)], payload |-> pl[Kth(S, k)]]]

TreesOver(payloads) ==
    UNION { {Tree(S, pl) : pl \in [S -> payloads]} :
            S \in {T \in SUBSET (1..Len(SourcePaths)) : Cardinality(T) <= MaxFiles} }

\* Files the destination may hold before the first run: one at a path
\* source files are copied to, one at a path no source file maps to.
PreExisting == { <<Destination, "2024-03", "x.jpg">>, <<Destination, "2024-03", "z.jpg">> }

OldFile(size) == [size |-> size, content |-> <<"old">>]

InitialDestinations ==
    UNION { [P -> {OldFile(s) : s \in 1..MaxSize}] : P \in SUBSET PreExisting }

ParentsOf(fs) == {parent(p) : p \in DOMAIN fs}

InitRest(flags, destinations) ==
    /\ skip_smaller \in flags
    /\ dry_run \in flags
    /\ dest \in destinations
    /\ dirs = ParentsOf(dest)
    /\ pc = "start"
    /\ idx = 1
    /\ session = "none"
    /\ stdin = <<>>
    /\ exc = FALSE
    /\ files = <<>>
    /\ unique = <<>>
    /\ out = <<>>
    /\ decisions = <<>>
    /\ run = 1
    /\ dest0 = dest
    /\ dirs0 = dirs
    /\ copied = <<>>
    /\ pipe = <<>>
    /\ output = <<>>
    /\ replies = <<>>

Init ==
    /\ src \in TreesOver(RunPayloads)
    /\ InitRest(BOOLEAN, InitialDestinations)

\* Every kind of answer parse_multimedia_file can be given for one file.
MimeValues == ImageMimeTypes \cup {VideoMimeType, "text/plain", NoKey}
SizeValues == {AbsentSize, BadSize} \cup {SizeValue("int", s) : s \in 1..MaxSize}
TagValues ==
    {AbsentTag, BadTag, TagValue("tz", Date(2024, 3, 2))}
        \cup {TagValue("naive", d) : d \in Dates}

\* Source trees for the enumeration alone: one file with any answer, alone
\* or next to a file that is a well-formed JPEG.
Neighbour == Jpeg(Date(2024, 11, 2), 1)
EnumTree(shape, payload) ==
    IF shape = "alone" THEN Tree({1}, [i \in {1} |-> payload])
    ELSE IF shape = "first"
    THEN Tree({1, 2}, [i \in {1, 2} |-> IF i = 1 THEN payload ELSE Neighbour])
    ELSE Tree({1, 2}, [i \in {1, 2} |-> IF i = 2 THEN payload ELSE Neighbour])
Shapes == {"alone", "first", "second"}

EmptyDestination == [p \in {} |-> OldFile(1)]

InitEnum ==
    /\ \E shape \in Shapes :
          \/ \E p \in {Garbage, EmptyList} : src = EnumTree(shape, p)
          \/ \E m \in MimeValues, s \in SizeValues, t \in [Tags -> TagValues] :
                src = EnumTree(shape, Payload(TRUE, << MetadataRecord(m, s, t) >>))
    /\ InitRest({FALSE}, {EmptyDestination})

\* ----------------------------------------------------------------- actions

\* ExifTool.__enter__ where a Popen failure is swallowed and the run goes on.
ExifTool_enter_swallow ==
    /\ pc = "start"
    /\ \E launched \in BOOLEAN :
          /\ session' = IF launched THEN "open" ELSE "failed"
          /\ pc' = IF launched THEN "walk" ELSE "resolve"
    /\ idx' = 1
    /\ UNCHANGED execute_vars
    /\ UNCHANGED <<copied, src, skip_smaller, dry_run, dest, dirs, stdin, exc, files,
                   unique, out, decisions, run, dest0, dirs0>>

\* with ExifTool() as exif_tool: Popen starts the child, or raises (no such
\* executable) and the exception leaves enumerate_files and main.
ExifTool_enter ==
    /\ pc = "start"
    /\ \E launched \in BOOLEAN :
          /\ session' = IF launched THEN "open" ELSE "failed"
          /\ pc' = IF launched THEN "walk" ELSE "aborted"
    /\ idx' = 1
    /\ UNCHANGED execute_vars
    /\ UNCHANGED <<copied, src, skip_smaller, dry_run, dest, dirs, stdin, exc, files,
                   unique, out, decisions, run, dest0, dirs0>>

\* One iteration of the walk of enumerate_files: the query of the file and
\* its classification.
enumerate_files ==
    /\ pc = "walk"
    /\ ~exc
    /\ idx <= Len(src)
    /\ stdin' = Append(stdin, "-execute")
    /\ LET mul_file == parse_multimedia_file(src[idx].path, src[idx].payload)
       IN  /\ exc' = (mul_file.status = "raise")
           /\ files' = IF mul_file.status = "file"
                       THEN Append(files, mul_file.file) ELSE files
           /\ idx' = IF mul_file.status = "raise" THEN idx ELSE idx + 1
    /\ UNCHANGED execute_vars
    /\ UNCHANGED <<copied, src, skip_smaller, dry_run, dest, dirs, pc, session, unique,
                   out, decisions, run, dest0, dirs0>>

\* ExifTool.__exit__ that writes nothing when an exception is propagating.
ExifTool_exit_leak ==
    /\ pc = "walk"
    /\ exc \/ idx > Len(src)
    /\ stdin' = IF exc THEN stdin ELSE Append(stdin, "-stay_open False")
    /\ session' = IF exc THEN session ELSE "closed"
    /\ pc' = IF exc THEN "aborted" ELSE "resolve"
    /\ idx' = IF exc THEN idx ELSE 1
    /\ UNCHANGED execute_vars
    /\ UNCHANGED <<copied, src, skip_smaller, dry_run, dest, dirs, exc, files, unique,
                   out, decisions, run, dest0, dirs0>>

\* ExifTool.__exit__: runs when the with block is left, at the end of the
\* walk or by an exception, which it does not suppress.
ExifTool_exit ==
    /\ pc = "walk"
    /\ exc \/ idx > Len(src)
    /\ stdin' = Append(stdin, "-stay_open False")
    /\ session' = "closed"
    /\ pc' = IF exc THEN "aborted" ELSE "resolve"
    /\ idx' = IF exc THEN idx ELSE 1
    /\ UNCHANGED execute_vars
    /\ UNCHANGED <<copied, src, skip_smaller, dry_run, dest, dirs, exc, files, unique,
                   out, decisions, run, dest0, dirs0>>

\* unique_files that copies a kept file at once, before the next decision.
unique_files_copying ==
    /\ pc = "resolve"
    /\ idx <= Len(files)
    /\ LET file == files[idx]
           target_path == construct_target_path(file, Destination)
           keep == is_unique(file, dest, Destination, skip_smaller)
       IN  /\ unique' = IF keep THEN Append(unique, file) ELSE unique
           /\ decisions' = Append(decisions,
                  [file |-> file,
                   target |-> target_path,
                   existed |-> exists(dest, target_path),
                   target_size |-> IF exists(dest, target_path)
                                   THEN getsize(dest, target_path) ELSE 0,
                   kept |-> keep])
           /\ dest' = IF keep /\ ~dry_run THEN copyfile(dest, file, target_path)
                      ELSE dest
           /\ dirs' = IF keep /\ ~dry_run THEN dirs \cup {parent(target_path)}
                      ELSE dirs
    /\ idx' = idx + 1
    /\ UNCHANGED execute_vars
    /\ UNCHANGED <<copied, src, skip_smaller, dry_run, pc, session, stdin,
                   exc, files, out, run, dest0, dirs0>>

\* unique_files that inserts a kept file at the front of its result.
unique_files_prepend ==
    /\ pc = "resolve"
    /\ idx <= Len(files)
    /\ LET file == files[idx]
           target_path == construct_target_path(file, Destination)
           keep == is_unique(file, dest, Destination, skip_smaller)
       IN  /\ unique' = IF keep THEN <<file>> \o unique ELSE unique
           /\ decisions' = Append(decisions,
                  [file |-> file,
                   target |-> target_path,
                   existed |-> exists(dest, target_path),
                   target_size |-> IF exists(dest, target_path)
                                   THEN getsize(dest, target_path) ELSE 0,
                   kept |-> keep])
    /\ idx' = idx + 1
    /\ UNCHANGED execute_vars
    /\ UNCHANGED <<copied, src, skip_smaller, dry_run, dest, dirs, pc, session, stdin,
                   exc, files, out, run, dest0, dirs0>>

\* One iteration of unique_files: the collision decision of files[idx].
unique_files ==
    /\ pc = "resolve"
    /\ idx <= Len(files)
    /\ LET file == files[idx]
           target_path == construct_target_path(file, Destination)
           keep == is_unique(file, dest, Destination, skip_smaller)
       IN  /\ unique' = IF keep THEN Append(unique, file) ELSE unique
           /\ decisions' = Append(decisions,
                  [file |-> file,
                   target |-> target_path,
                   existed |-> exists(dest, target_path),
                   target_size |-> IF exists(dest, target_path)
                                   THEN getsize(dest, target_path) ELSE 0,
                   kept |-> keep])
    /\ idx' = idx + 1
    /\ UNCHANGED execute_vars
    /\ UNCHANGED <<copied, src, skip_smaller, dry_run, dest, dirs, pc, session, stdin,
                   exc, files, out, run, dest0, dirs0>>

\* unique_files returns; main enters its copy loop.
unique_files_return ==
    /\ pc = "resolve"
    /\ idx > Len(files)
    /\ pc' = "copy"
    /\ idx' = 1
    /\ UNCHANGED execute_vars
    /\ UNCHANGED <<copied, src, skip_smaller, dry_run, dest, dirs, session, stdin, exc,
                   files, unique, out, decisions, run, dest0, dirs0>>

\* copy_file with the copy nested under the directory test: nothing is
\* copied into a directory that exists.
copy_file_new_dir_only ==
    /\ pc = "copy"
    /\ ~dry_run
    /\ idx <= Len(unique)
    /\ LET file == unique[idx]
           target_path == construct_target_path(file, Destination)
           target_dir == parent(target_path)
       IN  /\ dirs' = dirs \cup {target_dir}
           /\ dest' = IF target_dir \in dirs THEN dest
                      ELSE copyfile(dest, file, target_path)
    /\ copied' = Append(copied, unique[idx])
    /\ idx' = idx + 1
    /\ UNCHANGED execute_vars
    /\ UNCHANGED <<src, skip_smaller, dry_run, pc, session, stdin, exc, files,
                   unique, out, decisions, run, dest0, dirs0>>

\* copy_file(unique[idx]): make the month directory if it is missing, then
\* copy the bytes over whatever is at the target.
copy_file ==
    /\ pc = "copy"
    /\ ~dry_run
    /\ idx <= Len(unique)
    /\ LET file == unique[idx]
           target_path == construct_target_path(file, Destination)
           target_dir == parent(target_path)
       IN  /\ dirs' = dirs \cup {target_dir}
           /\ dest' = copyfile(dest, file, target_path)
    /\ copied' = Append(copied, unique[idx])
    /\ idx' = idx + 1
    /\ UNCHANGED execute_vars
    /\ UNCHANGED <<src, skip_smaller, dry_run, pc, session, stdin, exc, files,
                   unique, out, decisions, run, dest0, dirs0>>

\* copy_file where shutil.copyfile raises before it opens the target (the
\* source cannot be opened): the directory is made, the run ends.
copy_file_raises ==
    /\ pc = "copy"
    /\ ~dry_run
    /\ idx <= Len(unique)
    /\ dirs' = dirs \cup {parent(construct_target_path(unique[idx], Destination))}
    /\ pc' = "aborted"
    /\ UNCHANGED execute_vars
    /\ UNCHANGED <<copied, src, skip_smaller, dry_run, dest, idx, session, stdin, exc,
                   files, unique, out, decisions, run, dest0, dirs0>>

\* print_copy_file that performs the copy as well.
print_copy_file_copies ==
    /\ pc = "copy"
    /\ dry_run
    /\ idx <= Len(unique)
    /\ out' = Append(out, CopyLine(unique[idx], Destination))
    /\ dest' = copyfile(dest, unique[idx],
                        construct_target_path(unique[idx], Destination))
    /\ idx' = idx + 1
    /\ UNCHANGED execute_vars
    /\ UNCHANGED <<copied, src, skip_smaller, dry_run, dirs, pc, session, stdin, exc,
                   files, unique, decisions, run, dest0, dirs0>>

\* print_copy_file(unique[idx]) under --dry-run.
print_copy_file ==
    /\ pc = "copy"
    /\ dry_run
    /\ idx <= Len(unique)
    /\ out' = Append(out, CopyLine(unique[idx], Destination))
    /\ idx' = idx + 1
    /\ UNCHANGED execute_vars
    /\ UNCHANGED <<copied, src, skip_smaller, dry_run, dest, dirs, pc, session, stdin,
                   exc, files, unique, decisions, run, dest0, dirs0>>

\* The copy loop of main ends; main returns.
main_return ==
    /\ pc = "copy"
    /\ idx > Len(unique)
    /\ pc' = "done"
    /\ UNCHANGED execute_vars
    /\ UNCHANGED <<copied, src, skip_smaller, dry_run, dest, dirs, idx, session, stdin,
                   exc, files, unique, out, decisions, run, dest0, dirs0>>

\* The program is run a second time on the same source, destination and
\* flags, after a first run that copied and completed.
main_again ==
    /\ pc = "done"
    /\ run = 1
    /\ ~dry_run
    /\ run' = 2
    /\ pc' = "start"
    /\ idx' = 1
    /\ session' = "none"
    /\ stdin' = <<>>
    /\ exc' = FALSE
    /\ files' = <<>>
    /\ unique' = <<>>
    /\ out' = <<>>
    /\ decisions' = <<>>
    /\ dest0' = dest
    /\ copied' = <<>>
    /\ dirs0' = dirs
    /\ UNCHANGED execute_vars
    /\ UNCHANGED <<src, skip_smaller, dry_run, dest, dirs>>

\* ExifTool.sentinel: "{ready}" + os.linesep, one element per character.
Sentinel == <<"{", "r", "e", "a", "d", "y", "}", "\n">>

\* The count os.read is given.
ReadSize == 4096

\* bytes.decode(): the text of UTF-8 bytes, or a UnicodeDecodeError. C3 A9
\* are the two bytes of the character e-acute, every other byte is ASCII.
RECURSIVE utf8_decode(_)
utf8_decode(bytes) ==
    IF bytes = <<>> THEN [ok |-> TRUE, text |-> <<>>]
    ELSE IF Head(bytes) = "C3"
    THEN IF Len(bytes) >= 2 /\ bytes[2] = "A9"
         THEN LET rest == utf8_decode(SubSeq(bytes, 3, Len(bytes)))
              IN  [ok |-> rest.ok, text |-> <<"e-acute">> \o rest.text]
         ELSE [ok |-> FALSE, text |-> <<>>]
    ELSE IF Head(bytes) = "A9" THEN [ok |-> FALSE, text |-> <<>>]
    ELSE LET rest == utf8_decode(Tail(bytes))
         IN  [ok |-> rest.ok, text |-> <<Head(bytes)>> \o rest.text]

\* str.endswith
endswith(text, suffix) ==
    /\ Len(text) >= Len(suffix)
    /\ SubSeq(text, Len(text) - Len(suffix) + 1, Len(text)) = suffix

\* The bytes exiftool prints for a request before its "{ready}" line:
\* nothing for a file it cannot read, else the JSON array; the array of the
\* first JPEG names a file with a non-ASCII character, the array of the
\* other a file called {ready}.
ResponseBytes(payload) ==
    IF payload = Garbage THEN <<>>
    ELSE IF payload = EmptyList THEN <<"[", "]", "\n">>
    ELSE IF payload = Jpeg(Date(2024, 3, 2), 1) THEN <<"[", "C3", "A9", "]", "\n">>
    ELSE <<"[", "{", "r", "e", "a", "d", "y", "}", "]", "\n">>

\* json.loads of a text execute returned: the payload the bytes stand for,
\* or no JSON when the text is not the whole of what was printed.
json_loads(text, payload) ==
    IF text = utf8_decode(ResponseBytes(payload)).text THEN payload ELSE Garbage

\* ExifTool.execute that writes the request and does not wait for the
\* answer: the walk goes on to the next file.
execute_write_no_wait ==
    /\ pc = "walk"
    /\ ~exc
    /\ idx <= Len(src)
    /\ stdin' = Append(stdin, "-execute")
    /\ pipe' = pipe \o ResponseBytes(src[idx].payload) \o Sentinel
    /\ output' = <<>>
    /\ idx' = idx + 1
    /\ UNCHANGED <<src, skip_smaller, dry_run, dest, dirs, pc, session, exc,
                   files, unique, out, decisions, run, dest0, dirs0, copied,
                   replies>>

\* ExifTool.execute, lines 29-33: the request is written and flushed; the
\* child prints its answer and the sentinel.
execute_write ==
    /\ pc = "walk"
    /\ ~exc
    /\ idx <= Len(src)
    /\ stdin' = Append(stdin, "-execute")
    /\ pipe' = pipe \o ResponseBytes(src[idx].payload) \o Sentinel
    /\ output' = <<>>
    /\ pc' = "read"
    /\ UNCHANGED <<src, skip_smaller, dry_run, dest, dirs, idx, session, exc,
                   files, unique, out, decisions, run, dest0, dirs0, copied,
                   replies>>

\* ExifTool.execute, lines 34-35, one iteration: os.read returns some of the
\* bytes printed so far, which are decoded and appended.
execute_read ==
    /\ pc = "read"
    /\ ~endswith(output, Sentinel)
    /\ \E n \in 1..Min({ReadSize, Len(pipe)}) :
          LET chunk == utf8_decode(SubSeq(pipe, 1, n))
          IN  /\ pipe' = SubSeq(pipe, n + 1, Len(pipe))
              /\ output' = IF chunk.ok THEN output \o chunk.text ELSE output
              /\ exc' = ~chunk.ok
              /\ pc' = IF chunk.ok THEN "read" ELSE "walk"
    /\ UNCHANGED <<src, skip_smaller, dry_run, dest, dirs, idx, session, stdin,
                   files, unique, out, decisions, run, dest0, dirs0, copied,
                   replies>>

\* ExifTool.execute, line 36, and the rest of parse_multimedia_file and of
\* the iteration of enumerate_files: the text before the sentinel is
\* returned, parsed as JSON and classified.
execute_return ==
    /\ pc = "read"
    /\ endswith(output, Sentinel)
    /\ LET text == SubSeq(output, 1, Len(output) - Len(Sentinel))
           mul_file == parse_multimedia_file(src[idx].path,
                                             json_loads(text, src[idx].payload))
       IN  /\ replies' = Append(replies, text)
           /\ exc' = (mul_file.status = "raise")
           /\ files' = IF mul_file.status = "file"
                       THEN Append(files, mul_file.file) ELSE files
           /\ idx' = IF mul_file.status = "raise" THEN idx ELSE idx + 1
    /\ pc' = "walk"
    /\ UNCHANGED <<src, skip_smaller, dry_run, dest, dirs, session, stdin,
                   unique, out, decisions, run, dest0, dirs0, copied, pipe,
                   output>>

Enumeration ==
    \/ ExifTool_enter
    \/ enumerate_files
    \/ ExifTool_exit

Next ==
    \/ Enumeration
    \/ unique_files
    \/ unique_files_return
    \/ copy_file
    \/ copy_file_raises
    \/ print_copy_file
    \/ main_return
    \/ main_again

Spec == Init /\ [][Next]_vars

\* enumerate_files alone, over every kind of answer of the child.
SpecEnum == InitEnum /\ [][Enumeration]_vars

\* enumerate_files with the calls of ExifTool.execute read by read.
ExecPayloads == {Garbage, EmptyList, Jpeg(Date(2024, 3, 2), 1), Neighbour}

InitExec ==
    /\ src \in TreesOver(ExecPayloads)
    /\ InitRest({FALSE}, {EmptyDestination})

Session ==
    \/ ExifTool_enter
    \/ execute_write
    \/ execute_read
    \/ execute_return
    \/ ExifTool_exit

SpecExec == InitExec /\ [][Session]_vars

\* One run of main with the destination directory inside the source
\* directory (main takes any two directories): os.walk visits the files of
\* the destination as well, in an order the file system chooses, and the
\* child reports each with the size it has.
OverlapPayloads == {Jpeg(Date(2024, 3, 2), s) : s \in 1..MaxSize} \cup {Neighbour}
OverlapDates == {Date(2024, 3, 2), Date(2024, 11, 2)}
DestinationPaths ==
    << <<Destination, "2024-03", "x.jpg">>, <<Destination, "2024-03", "z.jpg">> >>

WalkOf(fs, dates) ==
    LET InFs(p) == p \in DOMAIN fs
        paths == SelectSeq(DestinationPaths, InFs)
    IN  [k \in 1..Len(paths) |->
            [path |-> paths[k],
             payload |-> Jpeg(dates[paths[k]], fs[paths[k]].size)]]

InitOverlap ==
    \E fs \in InitialDestinations \ {EmptyDestination} :
       /\ \E tree \in TreesOver(OverlapPayloads),
             dates \in [DOMAIN fs -> OverlapDates],
             first \in BOOLEAN :
                src = IF first THEN WalkOf(fs, dates) \o tree
                      ELSE tree \o WalkOf(fs, dates)
       /\ InitRest(BOOLEAN, {fs})

main ==
    \/ Enumeration
    \/ unique_files
    \/ unique_files_return
    \/ copy_file
    \/ copy_file_raises
    \/ print_copy_file
    \/ main_return

SpecOverlap == InitOverlap /\ [][main]_vars

\* ------------------------------------------------------------------ claims

\* Helpers of the claims, stated without the operators of the model.

\* The folder <YYYY-MM> of a creation timestamp, by table.
MonthFolder(date) ==
    CASE date.y = 2024 /\ date.m = 3 -> "2024-03"
      [] date.y = 2024 /\ date.m = 11 -> "2024-11"
      [] OTHER -> "none"

\* <destination>/<YYYY-MM>/<final component of the source path>
TargetOf(file) == <<"dst", MonthFolder(file.creation_date), file.path[3]>>

Kept == {k \in 1..Len(decisions) : decisions[k].kept}

ShutdownCommand == "-stay_open False"
Shutdowns == {k \in 1..Len(stdin) : stdin[k] = ShutdownCommand}

\* Files of the walk whose query and classification are over.
Visited ==
    IF pc = "start" THEN {}
    ELSE IF pc = "walk" \/ (pc = "aborted" /\ session = "closed") THEN 1..(idx - 1)
    ELSE IF session = "failed" THEN {}
    ELSE 1..Len(src)

\* C1: a candidate is kept exactly when nothing exists at its target, or
\* (default policy) the sizes differ, or (skip-smaller) it is larger than the
\* file at the target; in every other case it is dropped.
C1_DecisionTable ==
    /\ \A k \in 1..Len(decisions) :
          LET d == decisions[k]
              there == d.target \in DOMAIN dest0
          IN  d.kept <=>
                 \/ ~there
                 \/ there /\ ~skip_smaller /\ d.file.size # dest0[d.target].size
                 \/ there /\ skip_smaller /\ d.file.size > dest0[d.target].size
    /\ Len(unique) = Cardinality(Kept)
    /\ \A k \in 1..Len(unique) : \E j \in Kept : decisions[j].file = unique[k]

\* C1 witness: under skip-smaller a candidate as large as the file at its
\* target has been dropped, and under the default policy a smaller one kept.
C1_Witness ==
    \E k \in 1..Len(decisions) :
       LET d == decisions[k]
       IN  /\ d.target \in DOMAIN dest0
           /\ \/ skip_smaller /\ d.file.size = dest0[d.target].size /\ ~d.kept
              \/ ~skip_smaller /\ d.file.size < dest0[d.target].size /\ d.kept

\* C2 (as claimed): once a second run on the same source, destination and
\* policy has completed, it has created no destination path, and under
\* skip-smaller unique_files has returned an empty list (no copy is made).
C2_Idempotent ==
    (run = 2 /\ pc = "done") =>
        /\ DOMAIN dest = DOMAIN dest0
        /\ skip_smaller => unique = <<>>

\* C3: under --dry-run the destination's files and directories never change,
\* and the lines printed are the 'Copy A -> B' lines of the candidates kept by
\* unique_files, one each, in order.
C3_DryRun ==
    dry_run =>
        /\ dest = dest0
        /\ dirs = dirs0
        /\ pc = "copy" =>
              out = [k \in 1..(idx - 1) |->
                        [from |-> unique[k].path, to |-> TargetOf(unique[k])]]
        /\ pc = "done" =>
              out = [k \in 1..Len(unique) |->
                        [from |-> unique[k].path, to |-> TargetOf(unique[k])]]
        /\ pc \notin {"copy", "done"} => out = <<>>

\* C3 witness: a dry run has ended after two candidates were kept.
C3_Witness == dry_run /\ pc = "done" /\ Len(unique) = 2 /\ Len(out) = 2

\* C4: once the session is open, the shutdown command is written at most
\* once and nothing is written after it; and when enumerate_files has been
\* left, normally or by an exception, it has been written exactly once.
C4_ShutdownOnce ==
    session \in {"open", "closed"} =>
        /\ Cardinality(Shutdowns) <= 1
        /\ \A k \in Shutdowns : k = Len(stdin)
        /\ pc # "walk" => Cardinality(Shutdowns) = 1
        /\ Cardinality(Shutdowns) = 1 <=> session = "closed"

\* C4 witness: an exception has left enumerate_files after a query of the
\* second file, and the shutdown command was written.
C4_Witness ==
    /\ pc = "aborted" /\ exc
    /\ Len(stdin) = 3
    /\ stdin[3] = ShutdownCommand

\* C5 (as claimed): no exception of the parsing of a file leaves
\* enumerate_files, and when the walk is over every file whose answer is a
\* well-formed JPEG record is in the result.
C5_NoEscape ==
    /\ ~exc
    /\ session = "closed" =>
          \A i \in 1..Len(src) :
             src[i].payload = Neighbour =>
                \E k \in 1..Len(files) : files[k].path = src[i].path

\* A record the claim C6 covers: a supported MIME type, a numeric size, and
\* well-formed values in the candidate tags of its type.
Has(md, tag) == md.tags[tag].fmt # "absent"
ValidImage(md) ==
    /\ md.mime \in {"image/jpeg", "image/png", "image/heic"}
    /\ md.size.k = "int"
    /\ \A t \in {"EXIF:DateTimeOriginal", "EXIF:CreateDate", "XMP:CreateDate"} :
          Has(md, t) => md.tags[t].fmt = "naive"
ValidVideo(md) ==
    /\ md.mime = "video/quicktime"
    /\ md.size.k = "int"
    /\ Has(md, "QuickTime:CreationDate")
          => md.tags["QuickTime:CreationDate"].fmt = "tz"

\* The timestamp the precedence order asks for, NoDate when no tag is there.
ImageDate(md) ==
    IF Has(md, "EXIF:DateTimeOriginal") THEN md.tags["EXIF:DateTimeOriginal"].date
    ELSE IF Has(md, "EXIF:CreateDate") THEN md.tags["EXIF:CreateDate"].date
    ELSE IF Has(md, "XMP:CreateDate") THEN md.tags["XMP:CreateDate"].date
    ELSE NoDate
VideoDate(md) ==
    IF Has(md, "QuickTime:CreationDate") THEN md.tags["QuickTime:CreationDate"].date
    ELSE NoDate

RecordsOf(i) == {k \in 1..Len(files) : files[k].path = src[i].path}

\* C6: for a visited file with a valid record, the file is in the result
\* exactly when one of its candidate tags is present, once, with the value of
\* the first tag present in precedence order (QuickTime:CreationDate for a
\* video) and the record's size; every record of the result has a size and a
\* timestamp.
C6_TagPrecedence ==
    /\ \A i \in Visited :
          LET p == src[i].payload
          IN  (p.json /\ Len(p.records) = 1) =>
                 LET md == p.records[1]
                     want == IF ValidImage(md) THEN ImageDate(md) ELSE VideoDate(md)
                 IN  (ValidImage(md) \/ ValidVideo(md)) =>
                        IF want = NoDate
                        THEN RecordsOf(i) = {}
                        ELSE /\ Cardinality(RecordsOf(i)) = 1
                             /\ \A k \in RecordsOf(i) :
                                   /\ files[k].creation_date = want
                                   /\ files[k].size = md.size.v
    /\ \A k \in 1..Len(files) :
          /\ files[k].size \in 1..MaxSize
          /\ files[k].creation_date \in Dates

\* C6 witness: a visited image has no EXIF:DateTimeOriginal, an
\* EXIF:CreateDate and an XMP:CreateDate of another day, and is in the result
\* with the date of EXIF:CreateDate.
C6_Witness ==
    \E i \in Visited :
       LET p == src[i].payload
       IN  /\ p.json /\ Len(p.records) = 1
           /\ ValidImage(p.records[1])
           /\ ~Has(p.records[1], "EXIF:DateTimeOriginal")
           /\ Has(p.records[1], "EXIF:CreateDate")
           /\ Has(p.records[1], "XMP:CreateDate")
           /\ p.records[1].tags["EXIF:CreateDate"] # p.records[1].tags["XMP:CreateDate"]
           /\ \E k \in RecordsOf(i) :
                 files[k].creation_date = p.records[1].tags["EXIF:CreateDate"].date

\* C7: when the child cannot be launched the run is aborted: no collision
\* decision is made, no directory is made, no file is copied, no line printed.
C7_OpenFailureAborts ==
    session = "failed" =>
        /\ pc = "aborted"
        /\ decisions = <<>>
        /\ unique = <<>>
        /\ out = <<>>
        /\ dest = dest0
        /\ dirs = dirs0

\* C7 witness: the launch has failed on a source tree with a JPEG in it.
C7_Witness ==
    /\ session = "failed"
    /\ \E i \in 1..Len(src) : src[i].payload.json /\ Len(src[i].payload.records) = 1

\* C8: after a completed run that copies, the destination's files are the
\* ones from before the run and one at <destination>/<YYYY-MM>/<basename> for
\* every candidate kept; each file is as it was or is the copy of a kept
\* candidate.
C8_DestinationContents ==
    (pc = "done" /\ ~dry_run) =>
        /\ DOMAIN dest = DOMAIN dest0 \cup {TargetOf(unique[k]) : k \in 1..Len(unique)}
        /\ \A p \in DOMAIN dest :
              \/ p \in DOMAIN dest0 /\ dest[p] = dest0[p]
              \/ \E k \in 1..Len(unique) :
                    /\ TargetOf(unique[k]) = p
                    /\ dest[p].content = unique[k].path

\* C8 witness: a run has ended that copied one file into a month directory
\* that existed, next to a file that stays, while another source file was not
\* recognized.
C8_Witness ==
    /\ pc = "done" /\ ~dry_run /\ run = 1
    /\ Len(src) = 2 /\ Len(files) = 1 /\ Len(unique) = 1
    /\ <<"dst", "2024-03", "z.jpg">> \in DOMAIN dest0
    /\ TargetOf(unique[1]) \notin DOMAIN dest0
    /\ parent(TargetOf(unique[1])) \in dirs0
    /\ TargetOf(unique[1]) \in DOMAIN dest

\* C9 (as claimed): under skip-smaller no step makes the file at a
\* destination path smaller, i.e. no copy overwrites a larger file.
C9_NeverOverwritesLarger ==
    [][skip_smaller =>
          \A p \in DOMAIN dest : dest'[p].size >= dest[p].size]_vars

\* C10: the target is <destination>/<folder>/<name>; two candidates of the
\* same year and month have the same folder, and with the same final path
\* component as well the same target.
C10_TargetPath ==
    \A j, k \in 1..Len(decisions) :
       LET a == decisions[j]
           b == decisions[k]
           same_month == /\ a.file.creation_date.y = b.file.creation_date.y
                         /\ a.file.creation_date.m = b.file.creation_date.m
       IN  /\ Len(a.target) = 3
           /\ a.target[1] = "dst"
           /\ a.target[3] = a.file.path[3]
           /\ same_month => a.target[2] = b.target[2]
           /\ (same_month /\ a.file.path[3] = b.file.path[3]) => a.target = b.target

\* C10 witness: two files of directories a and b with one name, created on
\* different days of one month, have been given the same target.
C10_Witness ==
    \E j, k \in 1..Len(decisions) :
       /\ decisions[j].file.path[2] # decisions[k].file.path[2]
       /\ decisions[j].file.path[3] = decisions[k].file.path[3]
       /\ decisions[j].file.creation_date.d # decisions[k].file.creation_date.d
       /\ decisions[j].file.creation_date.m = decisions[k].file.creation_date.m
       /\ decisions[j].target = decisions[k].target

\* The sentinel line and the requests written, as the claims name them.
ReadyLine == <<"{", "r", "e", "a", "d", "y", "}", "\n">>
Executes == {k \in 1..Len(stdin) : stdin[k] = "-execute"}

\* The text the child printed for the k-th request, before its sentinel.
PrintedText(k) == utf8_decode(ResponseBytes(src[k].payload)).text

\* C11 (as claimed): every call of execute returns, when the text read ends
\* with the sentinel, and what it returns is the whole text the child printed
\* for the request, without the sentinel.
C11_Framing ==
    /\ \A k \in 1..Len(replies) : replies[k] = PrintedText(k)
    /\ pc # "read" => Len(replies) = Cardinality(Executes)
    /\ (pc # "read" /\ replies # <<>>) => output = replies[Len(replies)] \o ReadyLine

SameTarget(j, k) == decisions[j].target = decisions[k].target

C13_StageOrder ==
    /\ pc \in {"start", "walk"} => (decisions = <<>> /\ unique = <<>>)
    /\ decisions # <<>> => session = "closed"
    /\ pc \in {"resolve", "copy", "done"} =>
          stdin = [k \in 1..(Len(src) + 1) |->
                      IF k <= Len(src) THEN "-execute" ELSE ShutdownCommand]
    /\ pc \in {"start", "walk", "resolve"} =>
          (dest = dest0 /\ dirs = dirs0 /\ out = <<>> /\ copied = <<>>)
    /\ (copied # <<>> \/ out # <<>> \/ dest # dest0 \/ dirs # dirs0) =>
          (Len(decisions) = Len(files) /\ session = "closed")

\* C13 witness: the first of two copies has been made, after both decisions.
C13_Witness ==
    /\ pc = "copy" /\ idx = 2
    /\ Len(copied) = 1 /\ Len(decisions) = 2 /\ Len(unique) = 2

\* C14: nothing is written before the session is open; at most one request
\* is without its answer; when a request can be written every earlier one
\* has been answered and nothing of an answer is unread; one request is
\* written per visited file; nothing follows the shutdown command.
C14_Protocol ==
    /\ session \in {"none", "failed"} => stdin = <<>>
    /\ Cardinality(Executes) - Len(replies) \in {0, 1}
    /\ (pc = "walk" /\ ~exc) =>
          /\ Cardinality(Executes) = Len(replies)
          /\ pipe = <<>>
          /\ Cardinality(Executes) = idx - 1
    /\ (pc = "read" \/ exc) => Cardinality(Executes) = idx
    /\ pc = "resolve" => Cardinality(Executes) = Len(src)
    /\ \A k \in Shutdowns : k = Len(stdin)

\* C14 witness: two requests have been written and answered, one after the
\* other, and the session is closed.
C14_Witness ==
    /\ session = "closed"
    /\ Len(replies) = 2
    /\ stdin = <<"-execute", "-execute", ShutdownCommand>>

\* The files of the decisions that were kept, in the order of the decisions.
RECURSIVE KeptFiles(_)
KeptFiles(n) ==
    IF n = 0 THEN <<>>
    ELSE IF decisions[n].kept THEN Append(KeptFiles(n - 1), decisions[n].file)
    ELSE KeptFiles(n - 1)

\* C15: the list unique_files returns holds exactly the candidates decided
\* Unique or OverwriteAllowed, each once, in the order of the Enumerator
\* (the k-th decision is about the k-th enumerated file), and the copier
\* handles them in that order: what was copied, or reported under
\* --dry-run, is a prefix of the list, and the whole list when main returns.
C15_OrderedSubsequence ==
    /\ \A k \in 1..Len(decisions) : decisions[k].file = files[k]
    /\ unique = KeptFiles(Len(decisions))
    /\ Len(copied) <= Len(unique)
    /\ \A k \in 1..Len(copied) : copied[k] = unique[k]
    /\ Len(out) <= Len(unique)
    /\ \A k \in 1..Len(out) : out[k].from = unique[k].path
    /\ pc = "done" => (IF dry_run THEN Len(out) ELSE Len(copied)) = Len(unique)

\* Two files enumerated, the first skipped or not, and a run that kept two
\* different files and copied both.
C15_Witness ==
    /\ pc = "done" /\ ~dry_run
    /\ Len(unique) = 2 /\ unique[1] # unique[2]
    /\ copied = unique

\* C16: with skip-smaller, the file at a destination path that existed when
\* the run started is still there and is at least as large as it was then,
\* in every state of the run and so when the run ends.
C16_SizeNeverDecreases ==
    skip_smaller =>
        \A p \in DOMAIN dest0 :
           /\ p \in DOMAIN dest
           /\ dest[p].size >= dest0[p].size

\* A skip-smaller run that wrote two candidates to one existing path, the
\* second smaller than the first.
C16_Witness ==
    /\ skip_smaller /\ ~dry_run /\ pc = "done"
    /\ Len(copied) = 2
    /\ TargetOf(copied[1]) = TargetOf(copied[2])
    /\ TargetOf(copied[1]) \in DOMAIN dest0
    /\ copied[1].size > copied[2].size

\* The last kept candidate with the target of the k-th kept candidate.
LastWriter(k) ==
    CHOOSE j \in 1..Len(unique) :
        /\ TargetOf(unique[j]) = TargetOf(unique[k])
        /\ \A i \in (j + 1)..Len(unique) : TargetOf(unique[i]) # TargetOf(unique[k])

\* The bytes of a candidate as the enumeration saw them: those of the
\* source file, which for a source file inside the destination are the ones
\* at its path when the run started.
EnumeratedBytes(file) ==
    IF file.path \in DOMAIN dest0 THEN dest0[file.path]
    ELSE [size |-> file.size, content |-> file.path]

SharesTarget(k) ==
    \E j \in 1..Len(unique) : j # k /\ TargetOf(unique[j]) = TargetOf(unique[k])

\* C17: when a non-dry run has returned, every kept candidate was copied and
\* a target that several kept candidates share holds the size and the
\* content of the last of them, under either policy.
C17_LastWriterWins ==
    (pc = "done" /\ ~dry_run) =>
        /\ copied = unique
        /\ \A k \in 1..Len(unique) :
              SharesTarget(k) =>
                 /\ TargetOf(unique[k]) \in DOMAIN dest
                 /\ dest[TargetOf(unique[k])] = EnumeratedBytes(unique[LastWriter(k)])

\* No file of the destination is removed.
NoFileDeleted == DOMAIN dest0 \subseteq DOMAIN dest

\* A file of the source tree has the size and content it had when the run
\* started (a source file outside the destination is never opened for
\* writing: no action writes anywhere but to dest).
SourceFilesUnchanged ==
    \A i \in 1..Len(src) :
        src[i].path \in DOMAIN dest0 =>
            /\ src[i].path \in DOMAIN dest
            /\ dest[src[i].path] = dest0[src[i].path]

\* A destination file at a path no kept candidate maps to is as it was.
OtherFilesUnchanged ==
    \A p \in DOMAIN dest0 :
        (\A k \in Kept : TargetOf(decisions[k].file) # p) =>
            (p \in DOMAIN dest /\ dest[p] = dest0[p])

\* C18: a run deletes no file and changes no source file, and leaves every
\* destination file that is not at the target of a kept candidate with the
\* size and content it had.
C18_Frame ==
    /\ NoFileDeleted
    /\ SourceFilesUnchanged
    /\ OtherFilesUnchanged

====
